---- MODULE Spec2Model ----
(***************************************************************************)
(* Model of scripts/generate-index.py: the .PKGINFO parser, the archive    *)
(* extractor, the filename fallback, the repository scanner, the catalog   *)
(* builder and the static HTML renderer.                                   *)
(*                                                                         *)
(* Python strings are sequences of one-character strings, so that strip,   *)
(* split, partition, replace, rsplit and the ordering of filenames are     *)
(* computed character by character as the interpreter computes them.       *)
(* A dictionary is a function whose DOMAIN is its key set.  A value of a   *)
(* Metadata Record carries its Python type: Str(s) or List(l).             *)
(***************************************************************************)
EXTENDS Integers, Sequences, FiniteSets, TLC

VARIABLES
    pc,          \* position of the running function
    content,     \* parse_pkginfo: the text handed to the parser
    src_lines,   \* the lines the text was written from (input, never read by the code)
    parsed,      \* parse_pkginfo: the dictionary returned
    hname,       \* filename fallback: the archive name under test
    hparts,      \* filename fallback: parts computed at line 124
    hrecord,     \* filename fallback: the record appended at line 126, or NoRecord
    config_file, \* the file at args.config: its kind
    dir_exists,  \* whether <repo-dir>/x86_64 exists
    listing,     \* the names in x86_64, in the order the filesystem returns them
    fate,        \* per name: what extracting it does, its .PKGINFO text, its mtime
    static,      \* args.static
    template,    \* the file at args.template
    config,      \* main: config
    queue,       \* scan_packages: the files the for loop has still to visit
    pkg_file,    \* scan_packages: pkg_file
    packages,    \* scan_packages: packages
    log,         \* per visited file, in order: its name and the info extracted
    tmpdirs,     \* the temporary directories that exist
    ntmp,        \* how many temporary directories were created
    returncode,  \* extract_package_info: result.returncode
    ret,         \* extract_package_info: the value returned
    exc,         \* extract_package_info: the exception in flight, or "none"
    catalog,     \* the document at <output-dir>/packages.json, or NoDoc
    html         \* the file at <output-dir>/index.html

pureVars == <<content, src_lines, parsed, hname, hparts, hrecord>>
envVars == <<config_file, dir_exists, listing, fate, static, template>>
progVars == <<config, queue, pkg_file, packages, log, tmpdirs, ntmp, returncode, ret,
              exc, catalog, html>>
vars == <<pc, pureVars, envVars, progVars>>

----------------------------------------------------------------------------
(* Bounds of the model. *)

MaxLines == 3
MaxStemLen == 4
MaxFiles == 2

----------------------------------------------------------------------------
(* Python values. *)

Str(s) == [t |-> "str", v |-> s]
List(l) == [t |-> "list", v |-> l]

EmptyDict == [k \in {} |-> Str(<<>>)]

DictPut(d, k, x) == [y \in DOMAIN d \cup {k} |-> IF y = k THEN x ELSE d[y]]

\* dict.get(key, default)
DictGet(d, k, default) == IF k \in DOMAIN d THEN d[k] ELSE default

\* truth value of a Python str or list
Truthy(x) == Len(x.v) > 0

----------------------------------------------------------------------------
(* String primitives of the interpreter. *)

\* the whitespace str.strip() removes from both ends that the inputs hold (the
\* newline never occurs in a line produced by split('\n'))
Whitespace == {" ", "\t"}

RECURSIVE LStrip(_)
LStrip(s) ==
    IF s = <<>> THEN <<>>
    ELSE IF Head(s) \in Whitespace THEN LStrip(Tail(s)) ELSE s

RECURSIVE RStrip(_)
RStrip(s) ==
    IF s = <<>> THEN <<>>
    ELSE IF s[Len(s)] \in Whitespace THEN RStrip(SubSeq(s, 1, Len(s) - 1)) ELSE s

Strip(s) == RStrip(LStrip(s))

\* index of the first occurrence of character c in s, 0 when absent
RECURSIVE FindFrom(_, _, _)
FindFrom(s, c, i) ==
    IF i > Len(s) THEN 0
    ELSE IF s[i] = c THEN i ELSE FindFrom(s, c, i + 1)

Find(s, c) == FindFrom(s, c, 1)

\* index of the last occurrence of character c in s, 0 when absent
RECURSIVE RFindFrom(_, _, _)
RFindFrom(s, c, i) ==
    IF i < 1 THEN 0
    ELSE IF s[i] = c THEN i ELSE RFindFrom(s, c, i - 1)

RFind(s, c) == RFindFrom(s, c, Len(s))

\* str.split(c): always at least one part
RECURSIVE Split(_, _)
Split(s, c) ==
    LET i == Find(s, c) IN
    IF i = 0 THEN <<s>>
    ELSE <<SubSeq(s, 1, i - 1)>> \o Split(SubSeq(s, i + 1, Len(s)), c)

\* str.rsplit(c, maxsplit): splits from the right, at most maxsplit times
RECURSIVE RSplit(_, _, _)
RSplit(s, c, maxsplit) ==
    LET i == RFind(s, c) IN
    IF maxsplit = 0 \/ i = 0 THEN <<s>>
    ELSE RSplit(SubSeq(s, 1, i - 1), c, maxsplit - 1) \o <<SubSeq(s, i + 1, Len(s))>>

\* c.join(parts)
RECURSIVE Join(_, _)
Join(parts, c) ==
    IF parts = <<>> THEN <<>>
    ELSE IF Len(parts) = 1 THEN parts[1]
    ELSE parts[1] \o <<c>> \o Join(Tail(parts), c)

StartsWith(s, p) == Len(s) >= Len(p) /\ SubSeq(s, 1, Len(p)) = p

EndsWith(s, p) == Len(s) >= Len(p) /\ SubSeq(s, Len(s) - Len(p) + 1, Len(s)) = p

\* str.replace(old, ''): every non-overlapping occurrence, left to right
RECURSIVE Remove(_, _)
Remove(s, old) ==
    IF s = <<>> THEN <<>>
    ELSE IF StartsWith(s, old) THEN Remove(SubSeq(s, Len(old) + 1, Len(s)), old)
    ELSE <<Head(s)>> \o Remove(Tail(s), old)

\* str.partition('='): the text before and after the first '='
PartitionKey(line) == SubSeq(line, 1, Find(line, "=") - 1)
PartitionValue(line) == SubSeq(line, Find(line, "=") + 1, Len(line))

----------------------------------------------------------------------------
(* parse_pkginfo, lines 28-47. *)

\* a mutation of MergeValue: the second occurrence is put before the first
MergeValue_swapped(info, key, value) ==
    IF key \in DOMAIN info
    THEN IF info[key].t = "list"
         THEN DictPut(info, key, List(Append(info[key].v, value)))
         ELSE DictPut(info, key, List(<<value, info[key].v>>))
    ELSE DictPut(info, key, Str(value))

\* lines 40-46: the multi-value handling
MergeValue(info, key, value) ==
    IF key \in DOMAIN info
    THEN IF info[key].t = "list"
         THEN DictPut(info, key, List(Append(info[key].v, value)))
         ELSE DictPut(info, key, List(<<info[key].v, value>>))
    ELSE DictPut(info, key, Str(value))

\* lines 32-46: one iteration of the loop
ParseLine(info, raw) ==
    LET line == Strip(raw) IN
    IF line = <<>> \/ Head(line) = "#" THEN info
    ELSE IF Find(line, "=") # 0
         THEN MergeValue(info, Strip(PartitionKey(line)), Strip(PartitionValue(line)))
         ELSE info

RECURSIVE ParseLines(_, _)
ParseLines(info, lines) ==
    IF lines = <<>> THEN info
    ELSE ParseLines(ParseLine(info, Head(lines)), Tail(lines))

parse_pkginfo(pkginfo_content) == ParseLines(EmptyDict, Split(pkginfo_content, "\n"))

----------------------------------------------------------------------------
(* Inputs of the parser. *)

LinePool ==
    { <<"k", "=", "a">>,
      <<"k", "=", "b">>,
      <<"j", "=", "a">>,
      <<" ", "k", " ", "=", " ", "c", " ">>,
      <<"k", "=", "a", "=", "b">>,
      <<"k", "=">>,
      <<"=", "a">>,
      <<"#", "k", "=", "a">>,
      <<"k">>,
      <<>> }

SeqsUpTo(S, n) == UNION { [1..m -> S] : m \in 0..n }

NoRecord == [none |-> TRUE]

----------------------------------------------------------------------------
(* Filenames and the filename fallback of scan_packages, lines 121-132. *)

PKG_TAR == <<".", "p", "k", "g", ".", "t", "a", "r">>
ZST == <<".", "z", "s", "t">>
SIG == <<".", "s", "i", "g">>

\* the name of the archive built from a base name
Archive(base) == base \o PKG_TAR \o ZST

\* PurePath.suffix: from the last '.', unless it is the first or the last character
PathSuffix(name) ==
    LET i == RFind(name, ".") IN
    IF 1 < i /\ i < Len(name) THEN SubSeq(name, i, Len(name)) ELSE <<>>

\* PurePath.stem: the name without its suffix
PathStem(name) ==
    LET i == RFind(name, ".") IN
    IF 1 < i /\ i < Len(name) THEN SubSeq(name, 1, i - 1) ELSE name

\* line 124
FallbackParts(name) == RSplit(Remove(PathStem(name), PKG_TAR), "-", 3)

\* a mutation of FallbackAccepts: a name of two parts is skipped
FallbackAccepts_three(parts) == Len(parts) >= 3

\* line 125
FallbackAccepts(parts) == Len(parts) >= 2

\* lines 126-132
FallbackRecord(parts, name, build_date) ==
    [ name |-> Str(parts[1]),
      version |-> Str(IF Len(parts) > 2
                      THEN Join(SubSeq(parts, 2, Len(parts) - 1), "-")
                      ELSE parts[2]),
      description |-> Str(<<>>),
      build_date |-> Str(build_date),
      filename |-> Str(name) ]

\* get_file_mtime, lines 73-79: the formatted time, or '' when the stat fails
MTimes == { <<>>, <<"2", "0", "2", "4", "-", "0", "1", "-", "0", "1", " ", "0", "0", ":", "0", "0">> }

\* base names of the archives the fallback is tried on
StemAlphabet == {"a", "1", "-"}

MYTOOL ==
    <<"m", "y", "t", "o", "o", "l", "-", "2", ".", "3", ".", "1", "-", "1", "-",
      "x", "8", "6", "_", "6", "4">>

HeuristicBases ==
    SeqsUpTo(StemAlphabet, MaxStemLen)
    \cup { MYTOOL,
           <<"t", "o", "o", "l", "-", "1">>,
           <<"a">> \o PKG_TAR \o <<"-", "1">>,
           PKG_TAR \o <<"-", "1">> }

NoDoc == [none |-> TRUE]

\* a text file: absent, or its text
NoFile == [exists |-> FALSE, text |-> <<>>]
File(text) == [exists |-> TRUE, text |-> text]
PyNone == [t |-> "none", v |-> <<>>]

----------------------------------------------------------------------------
(* The ordering of paths: sorted() at line 99 compares the names of the    *)
(* files of one directory as strings, character by character, by code      *)
(* point.                                                                   *)

\* the printable ASCII characters in code-point order: 32 to 95, 97 to 126
AsciiLow ==
    <<" ", "!", "\"", "#", "$", "%", "&", "'", "(", ")", "*", "+", ",", "-",
      ".", "/", "0", "1", "2", "3", "4", "5", "6", "7", "8", "9", ":", ";",
      "<", "=", ">", "?", "@", "A", "B", "C", "D", "E", "F", "G", "H", "I",
      "J", "K", "L", "M", "N", "O", "P", "Q", "R", "S", "T", "U", "V", "W",
      "X", "Y", "Z", "[", "\\", "]", "^", "_">>

AsciiHigh ==
    <<"a", "b", "c", "d", "e", "f", "g", "h", "i", "j", "k", "l", "m", "n",
      "o", "p", "q", "r", "s", "t", "u", "v", "w", "x", "y", "z", "{", "|",
      "}", "~">>

CodePoint(c) ==
    IF \E i \in 1..Len(AsciiLow) : AsciiLow[i] = c
    THEN 31 + (CHOOSE i \in 1..Len(AsciiLow) : AsciiLow[i] = c)
    ELSE 96 + (CHOOSE i \in 1..Len(AsciiHigh) : AsciiHigh[i] = c)

RECURSIVE StrLess(_, _)
StrLess(a, b) ==
    IF b = <<>> THEN FALSE
    ELSE IF a = <<>> THEN TRUE
    ELSE IF Head(a) = Head(b) THEN StrLess(Tail(a), Tail(b))
    ELSE CodePoint(Head(a)) < CodePoint(Head(b))

RECURSIVE Insert(_, _)
Insert(x, s) ==
    IF s = <<>> THEN <<x>>
    ELSE IF StrLess(x, Head(s)) THEN <<x>> \o s
    ELSE <<Head(s)>> \o Insert(x, Tail(s))

RECURSIVE SortNames(_)
SortNames(s) == IF s = <<>> THEN <<>> ELSE Insert(Head(s), SortNames(Tail(s)))

\* a mutation of sorted: the order of the filesystem is kept
sorted_unsorted(names) == names

\* sorted(...), line 99
sorted(names) == SortNames(names)

\* pkg_dir.glob('*.pkg.tar.zst'), line 99: the names that end with the
\* pattern's literal tail, in the order the filesystem returns them
glob(names) == SelectSeq(names, LAMBDA n : EndsWith(n, PKG_TAR \o ZST))

----------------------------------------------------------------------------
(* The record of the metadata path, lines 108-119. *)

K_pkgname == <<"p", "k", "g", "n", "a", "m", "e">>
K_pkgver == <<"p", "k", "g", "v", "e", "r">>
K_pkgdesc == <<"p", "k", "g", "d", "e", "s", "c">>
K_url == <<"u", "r", "l">>
K_license == <<"l", "i", "c", "e", "n", "s", "e">>
K_arch == <<"a", "r", "c", "h">>
K_size == <<"s", "i", "z", "e">>
K_depend == <<"d", "e", "p", "e", "n", "d">>
UNKNOWN == <<"u", "n", "k", "n", "o", "w", "n">>
X86_64 == <<"x", "8", "6", "_", "6", "4">>

\* line 118
Depends(info) ==
    LET d == DictGet(info, K_depend, PyNone) IN
    IF d.t = "list" THEN d
    ELSE IF d.t = "str" /\ Truthy(d) THEN [t |-> "list", v |-> <<d.v>>]
    ELSE [t |-> "list", v |-> <<>>]

\* a mutation of MetadataRecord: every default is the empty string
MetadataRecord_blank(info, name, build_date) ==
    [ name |-> DictGet(info, K_pkgname, Str(Split(PathStem(name), "-")[1])),
      version |-> DictGet(info, K_pkgver, Str(<<>>)),
      description |-> DictGet(info, K_pkgdesc, Str(<<>>)),
      url |-> DictGet(info, K_url, Str(<<>>)),
      license |-> DictGet(info, K_license, Str(<<>>)),
      arch |-> DictGet(info, K_arch, Str(<<>>)),
      size |-> DictGet(info, K_size, Str(<<>>)),
      build_date |-> Str(build_date),
      filename |-> Str(name),
      depends |-> Depends(info) ]

\* lines 108-119
MetadataRecord(info, name, build_date) ==
    [ name |-> DictGet(info, K_pkgname, Str(Split(PathStem(name), "-")[1])),
      version |-> DictGet(info, K_pkgver, Str(UNKNOWN)),
      description |-> DictGet(info, K_pkgdesc, Str(<<>>)),
      url |-> DictGet(info, K_url, Str(<<>>)),
      license |-> DictGet(info, K_license, Str(<<>>)),
      arch |-> DictGet(info, K_arch, Str(X86_64)),
      size |-> DictGet(info, K_size, Str(<<>>)),
      build_date |-> Str(build_date),
      filename |-> Str(name),
      depends |-> Depends(info) ]

----------------------------------------------------------------------------
(* The inputs of a run: the directory, the archives, the configuration.    *)

\* .PKGINFO texts
INFO_FULL ==
    <<"p", "k", "g", "n", "a", "m", "e", " ", "=", " ", "f", "o", "o", "\n",
      "p", "k", "g", "v", "e", "r", " ", "=", " ", "1", ".", "0", "-", "1",
      "\n", "p", "k", "g", "d", "e", "s", "c", " ", "=", " ", "d", "\n", "u",
      "r", "l", " ", "=", " ", "u", "\n", "l", "i", "c", "e", "n", "s", "e",
      " ", "=", " ", "M", "I", "T", "\n", "a", "r", "c", "h", " ", "=", " ",
      "a", "n", "y", "\n", "s", "i", "z", "e", " ", "=", " ", "9", "\n", "d",
      "e", "p", "e", "n", "d", " ", "=", " ", "a", "\n", "d", "e", "p", "e",
      "n", "d", " ", "=", " ", "b", "\n">>

INFO_SPARSE ==
    <<"p", "k", "g", "n", "a", "m", "e", "=", "\n", "d", "e", "p", "e", "n",
      "d", "=", "a", "\n">>

INFO_DESC == <<"p", "k", "g", "d", "e", "s", "c", "=", "d">>

INFO_COMMENT == <<"#", " ", "x", "\n">>

MTIME == <<"2", "0", "2", "4", "-", "0", "1", "-", "0", "1", " ", "0", "0", ":", "0", "0">>

\* what extracting an archive does: x names the step that fails ("ok": none),
\* content is the text of .PKGINFO, mtime what get_file_mtime returns
Fates ==
    { [x |-> "mkdtemp_raises", content |-> <<>>, mtime |-> MTIME],
      [x |-> "run_raises", content |-> <<>>, mtime |-> MTIME],
      [x |-> "nonzero", content |-> <<>>, mtime |-> <<>>],
      [x |-> "absent", content |-> <<>>, mtime |-> MTIME],
      [x |-> "read_raises", content |-> INFO_FULL, mtime |-> MTIME],
      [x |-> "ok", content |-> INFO_FULL, mtime |-> MTIME],
      [x |-> "ok", content |-> INFO_SPARSE, mtime |-> <<>>],
      [x |-> "ok", content |-> INFO_DESC, mtime |-> MTIME],
      [x |-> "ok", content |-> INFO_COMMENT, mtime |-> MTIME] }

\* the names a directory is filled from
ScanNames ==
    { Archive(<<"a">>),
      Archive(<<"a", "-", "1">>),
      Archive(<<"b", "-", "2", "-", "1", "-", "x">>),
      Archive(<<"-", "1">>),
      Archive(<<"a", "-", "1">>) \o SIG }

\* the sequences of at most n distinct elements of S
DistinctSeqs(S, n) ==
    { s \in SeqsUpTo(S, n) : \A i, j \in 1..Len(s) : i # j => s[i] # s[j] }

Range(s) == { s[i] : i \in 1..Len(s) }

\* the state of the program while a pure function is run on its own
IdleProgram ==
    /\ config_file = "missing"
    /\ dir_exists = FALSE
    /\ listing = <<>>
    /\ fate = <<>>
    /\ static = FALSE
    /\ template = NoFile
    /\ config = PyNone
    /\ queue = <<>>
    /\ pkg_file = <<>>
    /\ packages = <<>>
    /\ log = <<>>
    /\ tmpdirs = {}
    /\ ntmp = 0
    /\ returncode = 0
    /\ ret = EmptyDict
    /\ exc = "none"
    /\ catalog = NoDoc
    /\ html = NoFile

IdlePure ==
    /\ content = <<>>
    /\ src_lines = <<>>
    /\ parsed = EmptyDict
    /\ hname = <<>>
    /\ hparts = <<>>
    /\ hrecord = NoRecord

----------------------------------------------------------------------------
(* The parser run on its own. *)

InitParse ==
    /\ pc = "parse_start"
    /\ src_lines \in SeqsUpTo(LinePool, MaxLines)
    /\ content = Join(src_lines, "\n")
    /\ parsed = EmptyDict
    /\ hname = <<>>
    /\ hparts = <<>>
    /\ hrecord = NoRecord
    /\ IdleProgram

Parse ==
    /\ pc = "parse_start"
    /\ parsed' = parse_pkginfo(content)
    /\ pc' = "parse_done"
    /\ UNCHANGED <<content, src_lines, hname, hparts, hrecord, envVars, progVars>>

NextParse == Parse

SpecParse == InitParse /\ [][NextParse]_vars

----------------------------------------------------------------------------
(* The filename fallback run on its own. *)

InitHeuristic ==
    /\ pc = "fallback_start"
    /\ hname \in { Archive(b) : b \in HeuristicBases }
    /\ hparts = <<>>
    /\ hrecord = NoRecord
    /\ content = <<>>
    /\ src_lines = <<>>
    /\ parsed = EmptyDict
    /\ IdleProgram

\* line 124
HeuristicSplit ==
    /\ pc = "fallback_start"
    /\ hparts' = FallbackParts(hname)
    /\ pc' = "fallback_check"
    /\ UNCHANGED <<content, src_lines, parsed, hname, hrecord, envVars, progVars>>

\* lines 125-132, at least two parts
HeuristicAppend ==
    /\ pc = "fallback_check"
    /\ FallbackAccepts(hparts)
    /\ \E m \in MTimes : hrecord' = FallbackRecord(hparts, hname, m)
    /\ pc' = "fallback_done"
    /\ UNCHANGED <<content, src_lines, parsed, hname, hparts, envVars, progVars>>

\* line 125, fewer than two parts: nothing is appended
HeuristicSkip ==
    /\ pc = "fallback_check"
    /\ ~FallbackAccepts(hparts)
    /\ pc' = "fallback_done"
    /\ UNCHANGED <<content, src_lines, parsed, hname, hparts, hrecord, envVars, progVars>>

NextHeuristic == HeuristicSplit \/ HeuristicAppend \/ HeuristicSkip

SpecHeuristic == InitHeuristic /\ [][NextHeuristic]_vars

----------------------------------------------------------------------------
(* extract_package_info, lines 50-70.  The with block is entered at        *)
(* "x_enter" and left, by return, by fall-through or by an exception, at   *)
(* the step that says so; leaving it removes the directory.                *)

\* a mutation of TmpExit: the directory is left behind
TmpExit_leak(dirs, d) == dirs

\* TemporaryDirectory.__exit__, line 54: the directory is removed
TmpExit(dirs, d) == dirs \ {d}

\* a mutation of Catches: only operating-system errors are caught
Catches_oserror(e) == e \in {"OSError", "FileNotFoundError"}

\* line 68: except Exception
Catches(e) == e \in {"OSError", "FileNotFoundError", "UnicodeDecodeError"}

scanRest == <<config, queue, pkg_file, packages, log, catalog, html>>

\* line 54: tempfile.TemporaryDirectory()
ExtractEnter ==
    /\ pc = "x_enter"
    /\ IF fate[pkg_file].x = "mkdtemp_raises"
       THEN /\ exc' = "OSError"
            /\ pc' = "x_except"
            /\ UNCHANGED <<tmpdirs, ntmp>>
       ELSE /\ tmpdirs' = tmpdirs \cup {ntmp + 1}
            /\ ntmp' = ntmp + 1
            /\ pc' = "x_run"
            /\ UNCHANGED exc
    /\ UNCHANGED <<returncode, ret, scanRest, pureVars, envVars>>

\* lines 55-59: subprocess.run
ExtractRun ==
    /\ pc = "x_run"
    /\ IF fate[pkg_file].x = "run_raises"
       THEN /\ exc' = "FileNotFoundError"
            /\ tmpdirs' = TmpExit(tmpdirs, ntmp)
            /\ pc' = "x_except"
            /\ UNCHANGED returncode
       ELSE /\ returncode' = IF fate[pkg_file].x = "nonzero" THEN 2 ELSE 0
            /\ pc' = "x_check"
            /\ UNCHANGED <<exc, tmpdirs>>
    /\ UNCHANGED <<ntmp, ret, scanRest, pureVars, envVars>>

\* lines 60-62
ExtractCheck ==
    /\ pc = "x_check"
    /\ IF returncode # 0
       THEN /\ ret' = EmptyDict
            /\ tmpdirs' = TmpExit(tmpdirs, ntmp)
            /\ pc' = "x_returned"
       ELSE /\ pc' = "x_exists"
            /\ UNCHANGED <<ret, tmpdirs>>
    /\ UNCHANGED <<ntmp, returncode, exc, scanRest, pureVars, envVars>>

\* lines 64-65, and line 70 when the member is absent
ExtractExists ==
    /\ pc = "x_exists"
    /\ IF fate[pkg_file].x = "absent"
       THEN /\ ret' = EmptyDict
            /\ tmpdirs' = TmpExit(tmpdirs, ntmp)
            /\ pc' = "x_returned"
       ELSE /\ pc' = "x_read"
            /\ UNCHANGED <<ret, tmpdirs>>
    /\ UNCHANGED <<ntmp, returncode, exc, scanRest, pureVars, envVars>>

\* lines 66-67
ExtractRead ==
    /\ pc = "x_read"
    /\ IF fate[pkg_file].x = "read_raises"
       THEN /\ exc' = "UnicodeDecodeError"
            /\ pc' = "x_except"
            /\ UNCHANGED ret
       ELSE /\ ret' = parse_pkginfo(fate[pkg_file].content)
            /\ pc' = "x_returned"
            /\ UNCHANGED exc
    /\ tmpdirs' = TmpExit(tmpdirs, ntmp)
    /\ UNCHANGED <<ntmp, returncode, scanRest, pureVars, envVars>>

\* lines 68-70: the handler, or the exception leaves the function
ExtractExcept ==
    /\ pc = "x_except"
    /\ IF Catches(exc)
       THEN /\ ret' = EmptyDict
            /\ exc' = "none"
            /\ pc' = "x_returned"
       ELSE /\ pc' = "crashed"
            /\ UNCHANGED <<ret, exc>>
    /\ UNCHANGED <<tmpdirs, ntmp, returncode, scanRest, pureVars, envVars>>

NextExtract ==
    \/ ExtractEnter
    \/ ExtractRun
    \/ ExtractCheck
    \/ ExtractExists
    \/ ExtractRead
    \/ ExtractExcept

----------------------------------------------------------------------------
(* scan_packages, lines 90-134. *)

extractVars == <<tmpdirs, ntmp, returncode, ret, exc>>

\* lines 92-99: the directory test, and the sorted glob the loop runs over
ScanStart ==
    /\ pc = "scan_start"
    /\ packages' = <<>>
    /\ IF ~dir_exists
       THEN /\ pc' = "scan_returned"
            /\ UNCHANGED queue
       ELSE /\ queue' = sorted(glob(listing))
            /\ pc' = "scan_next"
    /\ UNCHANGED <<config, pkg_file, log, catalog, html, extractVars, pureVars, envVars>>

\* lines 99-105: the next file of the loop, or line 134 when there is none
ScanNext ==
    /\ pc = "scan_next"
    /\ IF queue = <<>>
       THEN /\ pc' = "scan_returned"
            /\ UNCHANGED <<queue, pkg_file>>
       ELSE /\ pkg_file' = Head(queue)
            /\ queue' = Tail(queue)
            /\ pc' = IF PathSuffix(Head(queue)) = SIG THEN "scan_next" ELSE "x_enter"
    /\ UNCHANGED <<config, packages, log, catalog, html, extractVars, pureVars, envVars>>

\* lines 105-132: info is what extract_package_info returned
ScanBuild ==
    /\ pc = "x_returned"
    /\ LET info == ret
           build_date == fate[pkg_file].mtime
           parts == FallbackParts(pkg_file)
       IN  packages' =
               IF DOMAIN info # {}
               THEN Append(packages, MetadataRecord(info, pkg_file, build_date))
               ELSE IF FallbackAccepts(parts)
                    THEN Append(packages, FallbackRecord(parts, pkg_file, build_date))
                    ELSE packages
    /\ log' = Append(log, [file |-> pkg_file, info |-> ret])
    /\ pc' = "scan_next"
    /\ UNCHANGED <<config, queue, pkg_file, catalog, html, extractVars, pureVars, envVars>>

NextScan == ScanStart \/ ScanNext \/ ScanBuild \/ NextExtract

InitScanState ==
    /\ config = PyNone
    /\ queue = <<>>
    /\ pkg_file = <<>>
    /\ packages = <<>>
    /\ log = <<>>
    /\ tmpdirs = {}
    /\ ntmp = 0
    /\ returncode = 0
    /\ ret = EmptyDict
    /\ exc = "none"
    /\ catalog = NoDoc
    /\ html = NoFile

InitScan ==
    /\ pc = "scan_start"
    /\ IdlePure
    /\ config_file = "missing"
    /\ static = FALSE
    /\ template = NoFile
    /\ dir_exists \in BOOLEAN
    /\ listing \in IF dir_exists THEN DistinctSeqs(ScanNames, MaxFiles) ELSE {<<>>}
    /\ fate \in [Range(listing) -> Fates]
    /\ InitScanState

SpecScan == InitScan /\ [][NextScan]_vars

----------------------------------------------------------------------------
(* Properties of the parser. *)

C7_Trim(l) ==
    LET ix == { i \in 1..Len(l) : l[i] \notin Whitespace } IN
    IF ix = {} THEN <<>>
    ELSE SubSeq(l, CHOOSE i \in ix : \A j \in ix : i <= j,
                   CHOOSE i \in ix : \A j \in ix : j <= i)

\* the position of the first '=' of a line
C7_FirstEq(l) == CHOOSE i \in 1..Len(l) : l[i] = "=" /\ \A j \in 1..(i - 1) : l[j] # "="

\* the line is neither blank nor a comment and holds a '='
C7_Counts(l) ==
    LET t == C7_Trim(l) IN
    t # <<>> /\ t[1] # "#" /\ \E i \in 1..Len(t) : t[i] = "="

C7_Key(l) == LET t == C7_Trim(l) IN C7_Trim(SubSeq(t, 1, C7_FirstEq(t) - 1))
C7_Value(l) == LET t == C7_Trim(l) IN C7_Trim(SubSeq(t, C7_FirstEq(t) + 1, Len(t)))

\* the values of key k, in the order its lines appear
C7_Values(k) ==
    LET sel == SelectSeq(src_lines, LAMBDA l : C7_Counts(l) /\ C7_Key(l) = k) IN
    [i \in 1..Len(sel) |-> C7_Value(sel[i])]

C7_Keys == { C7_Key(src_lines[i]) : i \in { j \in 1..Len(src_lines) : C7_Counts(src_lines[j]) } }

\* C7: the dictionary parse_pkginfo returns has exactly the keys of the
\* key=value lines; a key that occurs once maps to its value as a string, a key
\* that occurs n >= 2 times maps to the list of its n values in line order;
\* key and value are the text before and after the first '=' of the line.
C7_ValuesByOccurrence ==
    pc = "parse_done" =>
        /\ DOMAIN parsed = C7_Keys
        /\ \A k \in C7_Keys :
               LET vs == C7_Values(k) IN
               IF Len(vs) = 1
               THEN parsed[k].t = "str" /\ parsed[k].v = vs[1]
               ELSE parsed[k].t = "list" /\ parsed[k].v = vs

\* a key with three occurrences, one of them with a second '=' in its value
C7_Witness ==
    /\ pc = "parse_done"
    /\ <<"k">> \in DOMAIN parsed
    /\ parsed[<<"k">>].t = "list"
    /\ parsed[<<"k">>].v = << <<"b">>, <<"a", "=", "b">>, <<"c">> >>

----------------------------------------------------------------------------
(* Properties of the filename fallback. *)

\* the name without the archive suffix .pkg.tar.zst
C8_Remainder == SubSeq(hname, 1, Len(hname) - Len(PKG_TAR \o ZST))

C8_Hyphens == { i \in 1..Len(C8_Remainder) : C8_Remainder[i] = "-" }

\* the hyphens a split from the right into at most 4 parts cuts at
C8_Cuts == { i \in C8_Hyphens : Cardinality({ j \in C8_Hyphens : j > i }) < 3 }

C8_First == CHOOSE i \in C8_Cuts : \A j \in C8_Cuts : i <= j
C8_Last == CHOOSE i \in C8_Cuts : \A j \in C8_Cuts : j <= i

\* C8: the fallback strips the archive suffix and splits the remainder from the
\* right on '-' into at most 4 parts; fewer than 2 parts give no record; with 2
\* parts the name is the first and the version the second; with more the name
\* is the first part and the version the middle parts joined with '-';
\* 'mytool-2.3.1-1-x86_64' gives 'mytool' and '2.3.1-1'.
C8_FallbackFromSuffixStrippedName ==
    pc = "fallback_done" =>
        /\ IF C8_Cuts = {}
           THEN hrecord = NoRecord
           ELSE /\ hrecord # NoRecord
                /\ hrecord.name = Str(SubSeq(C8_Remainder, 1, C8_First - 1))
                /\ hrecord.version =
                       Str(IF Cardinality(C8_Cuts) = 1
                           THEN SubSeq(C8_Remainder, C8_First + 1, Len(C8_Remainder))
                           ELSE SubSeq(C8_Remainder, C8_First + 1, C8_Last - 1))
        /\ hname = Archive(MYTOOL) =>
               /\ hrecord.name = Str(<<"m", "y", "t", "o", "o", "l">>)
               /\ hrecord.version = Str(<<"2", ".", "3", ".", "1", "-", "1">>)

\* the same statement for the names that hold .pkg.tar only in their suffix
C8_HoldsWithoutInnerSuffix ==
    Remove(C8_Remainder, PKG_TAR) = C8_Remainder => C8_FallbackFromSuffixStrippedName

----------------------------------------------------------------------------
(* Properties of the scan. *)

Matches(f) == EndsWith(f, PKG_TAR \o ZST)

\* a before b in code-point order
Before(a, b) ==
    \E i \in 1..Len(b) :
        /\ Len(a) >= i - 1
        /\ \A j \in 1..(i - 1) : a[j] = b[j]
        /\ (i > Len(a) \/ CodePoint(a[i]) < CodePoint(b[i]))

Filenames(pkgs) == [i \in 1..Len(pkgs) |-> pkgs[i].filename.v]

StrictlyIncreasing(s) == \A i \in 1..(Len(s) - 1) : Before(s[i], s[i + 1])

\* the name without .pkg.tar.zst holds a '-': the fallback finds two parts
TwoParts(f) ==
    \E i \in 1..(Len(f) - Len(PKG_TAR \o ZST)) : f[i] = "-"

\* what the archive's own data makes of it, whatever the order of the files
Contributes(f) ==
    \/ fate[f].x = "ok" /\ DOMAIN parse_pkginfo(fate[f].content) # {}
    \/ TwoParts(f)

\* C1: the filenames of the records are in strictly increasing code-point
\* order, and the list returned holds exactly the matching files that yield a
\* record: a function of the set of files, not of the order they are listed in.
C1_SortedByFilename ==
    /\ StrictlyIncreasing(Filenames(packages))
    /\ pc = "scan_returned" =>
           Range(Filenames(packages))
               = { f \in Range(listing) : Matches(f) /\ Contributes(f) }

\* two records returned, from a listing that is not in filename order
C1_Witness ==
    /\ pc = "scan_returned"
    /\ Len(packages) = 2
    /\ Len(listing) = 2
    /\ Before(listing[2], listing[1])

FullFields ==
    {"name", "version", "description", "url", "license", "arch", "size",
     "build_date", "filename", "depends"}

FallbackFields == {"name", "version", "description", "build_date", "filename"}

OtherFields == {"version", "description", "url", "license", "arch", "size", "depends"}

\* the metadata key a field of the record is read from
KeyOf(f) ==
    CASE f = "version" -> K_pkgver
      [] f = "description" -> K_pkgdesc
      [] f = "url" -> K_url
      [] f = "license" -> K_license
      [] f = "arch" -> K_arch
      [] f = "size" -> K_size
      [] f = "depends" -> K_depend

\* the info the record of a file was built from
Origin(r) == (CHOOSE e \in Range(log) : e.file = r.filename.v).info

\* the first '-'-delimited token of the name without its .zst
FirstToken(f) ==
    LET stem == SubSeq(f, 1, Len(f) - Len(ZST))
        hy == { i \in 1..Len(stem) : stem[i] = "-" }
    IN  IF hy = {} THEN stem
        ELSE SubSeq(stem, 1, (CHOOSE i \in hy : \A j \in hy : i <= j) - 1)

\* C2 as stated: name and filename present and non-empty, every other
\* recognized field present, and empty when the source does not supply it.
C2_AllFieldsPresentEmptyDefaults ==
    \A i \in 1..Len(packages) :
        LET r == packages[i]
            info == Origin(r)
        IN  /\ "name" \in DOMAIN r /\ r.name.v # <<>>
            /\ "filename" \in DOMAIN r /\ r.filename.v # <<>>
            /\ \A f \in OtherFields :
                   /\ f \in DOMAIN r
                   /\ IF DOMAIN info # {}
                      THEN KeyOf(f) \notin DOMAIN info => r[f].v = <<>>
                      ELSE f # "version" => r[f].v = <<>>

\* C2 as amended: filename is present and non-empty and name is present; a
\* record of the metadata path has all ten fields, and a field the metadata does
\* not supply is 'unknown' for version, 'x86_64' for arch, the first '-' token
\* of the stem for name, [] for depends and '' for the others; a record of the
\* fallback path has exactly name, version, description, build_date and
\* filename, and its description is ''.
C2_FieldsAndDefaults ==
    \A i \in 1..Len(packages) :
        LET r == packages[i]
            info == Origin(r)
        IN  /\ {"name", "filename"} \subseteq DOMAIN r
            /\ r.filename.t = "str" /\ r.filename.v # <<>>
            /\ IF DOMAIN info # {}
               THEN /\ DOMAIN r = FullFields
                    /\ K_pkgname \notin DOMAIN info => r.name = Str(FirstToken(r.filename.v))
                    /\ K_pkgver \notin DOMAIN info => r.version = Str(UNKNOWN)
                    /\ K_arch \notin DOMAIN info => r.arch = Str(X86_64)
                    /\ \A f \in {"description", "url", "license", "size"} :
                           KeyOf(f) \notin DOMAIN info => r[f] = Str(<<>>)
                    /\ K_depend \notin DOMAIN info => r.depends = List(<<>>)
               ELSE /\ DOMAIN r = FallbackFields
                    /\ r.description = Str(<<>>)

\* a record built from metadata that lacks pkgver, beside a fallback record
C2_Witness ==
    /\ Len(packages) = 2
    /\ \E i, j \in 1..2 :
           /\ DOMAIN packages[i] = FullFields
           /\ K_pkgver \notin DOMAIN Origin(packages[i])
           /\ packages[i].version = Str(UNKNOWN)
           /\ DOMAIN packages[j] = FallbackFields

\* C3: the scan never ends by an exception; when it returns, every matching
\* archive was visited exactly once, in filename order; an archive whose
\* extraction failed gave an empty info; the records are, in visiting order, one
\* ten-field record per archive with a non-empty info and one five-field
\* record per archive with an empty info and a name of at least two parts.
C3_EachArchiveOnceInOrder ==
    /\ pc # "crashed"
    /\ (pc = "scan_returned" /\ dir_exists) =>
           LET visited == [i \in 1..Len(log) |-> log[i].file]
               matching == { f \in Range(listing) : Matches(f) }
               yields == SelectSeq(log, LAMBDA e : DOMAIN e.info # {} \/ TwoParts(e.file))
           IN  /\ Range(visited) = matching
               /\ Len(log) = Cardinality(matching)
               /\ StrictlyIncreasing(visited)
               /\ ntmp <= Len(log)
               /\ \A i \in 1..Len(log) :
                      fate[log[i].file].x # "ok" => DOMAIN log[i].info = {}
               /\ Len(packages) = Len(yields)
               /\ \A i \in 1..Len(yields) :
                      /\ packages[i].filename.v = yields[i].file
                      /\ DOMAIN packages[i] =
                             IF DOMAIN yields[i].info # {} THEN FullFields ELSE FallbackFields

\* an archive whose extraction fails, then a sibling whose extraction succeeds
C3_Witness ==
    /\ pc = "scan_returned"
    /\ Len(log) = 2
    /\ fate[log[1].file].x = "run_raises"
    /\ fate[log[2].file].x = "ok"
    /\ Len(packages) = 2
    /\ DOMAIN packages[1] = FallbackFields
    /\ DOMAIN packages[2] = FullFields

\* C6: no exception leaves extract_package_info, and a call in which the tar
\* run exits non-zero, the member is absent or an exception is raised returns
\* the empty dictionary.
C6_ExtractNeverRaises ==
    /\ pc # "crashed"
    /\ (pc = "x_returned" /\ fate[pkg_file].x # "ok") => DOMAIN ret = {}

\* the call returned after read_text raised inside the with block
C6_Witness ==
    /\ pc = "x_returned"
    /\ fate[pkg_file].x = "read_raises"
    /\ DOMAIN ret = {}
    /\ exc = "none"

\* C10: at most one temporary directory exists, and one exists only while the
\* call is inside its with block: none when the call has returned or is in its
\* exception handler, none between calls, none when the scan has ended.
C10_TempDirScopedToCall ==
    /\ Cardinality(tmpdirs) <= 1
    /\ tmpdirs # {} => pc \in {"x_run", "x_check", "x_exists", "x_read"}

\* the scan ended after two extractions, one of them left by an exception
C10_Witness ==
    /\ pc = "scan_returned"
    /\ ntmp = 2
    /\ tmpdirs = {}
    /\ \E i \in 1..Len(log) : fate[log[i].file].x = "read_raises"
    /\ \E i \in 1..Len(log) : fate[log[i].file].x = "nonzero"

----------------------------------------------------------------------------
(* load_packages_yaml, lines 82-87, and the repository name read at lines   *)
(* 140 and 213.  A mapping is a function on its keys; the value of          *)
(* 'repository' carries its type.                                           *)

ConfigFiles ==
    {"missing", "named", "no_repository", "empty", "malformed", "repository_scalar"}

EmptyConfig == [k \in {} |-> PyNone]

\* what yaml.safe_load returns for the file, or that it raises
load_packages_yaml(file) ==
    CASE file = "missing" ->
             [raises |-> FALSE,
              value |-> [repository |-> [kind |-> "map", name |-> "repo"],
                         packages |-> <<>>]]
      [] file = "named" ->
             [raises |-> FALSE,
              value |-> [repository |-> [kind |-> "map", name |-> "lucky"],
                         packages |-> <<"p1", "p2", "p3">>]]
      [] file = "no_repository" ->
             [raises |-> FALSE, value |-> [packages |-> <<"p1">>]]
      [] file = "empty" ->
             [raises |-> FALSE, value |-> EmptyConfig]
      [] file = "repository_scalar" ->
             [raises |-> FALSE, value |-> [repository |-> [kind |-> "str"]]]
      [] file = "malformed" ->
             [raises |-> TRUE, value |-> EmptyConfig]

\* config.get('repository', {}).get('name', default): a value of 'repository'
\* that is no mapping has no get
RepositoryName(cfg, default) ==
    LET repo == IF "repository" \in DOMAIN cfg THEN cfg.repository ELSE [kind |-> "map"] IN
    IF repo.kind = "map"
    THEN [raises |-> FALSE, name |-> IF "name" \in DOMAIN repo THEN repo.name ELSE default]
    ELSE [raises |-> TRUE, name |-> default]

\* datetime.now() as the two writers format it
Clock == {"2024-01-01 00:00", "2024-01-01 00:01"}

----------------------------------------------------------------------------
(* generate_packages_json, lines 137-149. *)

\* a mutation of CatalogData: the count is that of the declared packages
CatalogData_declared(pkgs, cfg, now) ==
    [ repository |-> RepositoryName(cfg, "repo").name,
      last_updated |-> now,
      package_count |-> IF "packages" \in DOMAIN cfg THEN Len(cfg.packages) ELSE 0,
      packages |-> pkgs ]

\* lines 139-144
CatalogData(pkgs, cfg, now) ==
    [ repository |-> RepositoryName(cfg, "repo").name,
      last_updated |-> now,
      package_count |-> Len(pkgs),
      packages |-> pkgs ]

----------------------------------------------------------------------------
(* generate_static_html, lines 152-193.  A document is a sequence of        *)
(* segments: the three literal markers the code searches for, other text,   *)
(* and what the code puts in their place.                                   *)

Text(s) == [seg |-> "text", s |-> s]
Placeholder == [seg |-> "placeholder"]
CountMarker == [seg |-> "count_marker"]
UpdatedMarker == [seg |-> "updated_marker"]
CountValue(n) == [seg |-> "count", n |-> n]
UpdatedValue(now) == [seg |-> "updated", now |-> now]

\* lines 163-168
Row(pkg) ==
    [ seg |-> "row",
      name |-> pkg.name,
      version |-> DictGet(pkg, "version", Str(<<"-">>)),
      description |-> DictGet(pkg, "description", Str(<<"-">>)),
      build_date |-> DictGet(pkg, "build_date", Str(<<"-">>)) ]

\* lines 161-169
Rows(pkgs) == [i \in 1..Len(pkgs) |-> Row(pkgs[i])]

\* '\n'.join(rows), line 173
RECURSIVE JoinRows(_)
JoinRows(rows) ==
    IF rows = <<>> THEN <<>>
    ELSE IF Len(rows) = 1 THEN rows
    ELSE <<Head(rows), Text("\n")>> \o JoinRows(Tail(rows))

\* str.replace(marker, new): every occurrence of the marker
RECURSIVE Replace(_, _, _)
Replace(doc, marker, new) ==
    IF doc = <<>> THEN <<>>
    ELSE (IF Head(doc) = marker THEN new ELSE <<Head(doc)>>)
         \o Replace(Tail(doc), marker, new)

\* a mutation of Render: the placeholder is replaced whatever the rows
Render_always(tpl, pkgs, now) ==
    LET t1 == Replace(tpl, Placeholder, JoinRows(Rows(pkgs)))
        t2 == Replace(t1, CountMarker, <<CountValue(Len(pkgs))>>)
    IN  Replace(t2, UpdatedMarker, <<UpdatedValue(now)>>)

\* lines 161-190
Render(tpl, pkgs, now) ==
    LET rows == Rows(pkgs)
        t1 == IF rows # <<>> THEN Replace(tpl, Placeholder, JoinRows(rows)) ELSE tpl
        t2 == Replace(t1, CountMarker, <<CountValue(Len(pkgs))>>)
    IN  Replace(t2, UpdatedMarker, <<UpdatedValue(now)>>)

Templates ==
    { <<Text("head"), Placeholder, Text("stats"), CountMarker, UpdatedMarker, Text("foot")>>,
      <<Placeholder, Text("again"), Placeholder, CountMarker>>,
      <<Text("head"), UpdatedMarker>> }

----------------------------------------------------------------------------
(* main, lines 196-232. *)

mainRest == <<queue, pkg_file, packages, log, extractVars, pureVars, envVars>>

\* line 212: an exception of yaml.safe_load is not caught
MainLoadConfig ==
    /\ pc = "main_start"
    /\ LET r == load_packages_yaml(config_file) IN
       IF r.raises
       THEN /\ pc' = "crashed"
            /\ UNCHANGED config
       ELSE /\ config' = r.value
            /\ pc' = "main_print"
    /\ UNCHANGED <<catalog, html, mainRest>>

\* line 213
MainPrintRepository ==
    /\ pc = "main_print"
    /\ pc' = IF RepositoryName(config, "unknown").raises THEN "crashed" ELSE "scan_start"
    /\ UNCHANGED <<config, catalog, html, mainRest>>

\* lines 217-220
MainFound ==
    /\ pc = "scan_returned"
    /\ pc' = "main_json"
    /\ UNCHANGED <<config, catalog, html, mainRest>>

\* line 223: generate_packages_json
MainGenerateJson ==
    /\ pc = "main_json"
    /\ \E now \in Clock : catalog' = CatalogData(packages, config, now)
    /\ pc' = IF static THEN "main_html" ELSE "done"
    /\ UNCHANGED <<config, html, mainRest>>

\* lines 226-232: generate_static_html
MainGenerateHtml ==
    /\ pc = "main_html"
    /\ IF ~template.exists
       THEN UNCHANGED html
       ELSE \E now \in Clock : html' = File(Render(template.text, packages, now))
    /\ pc' = "done"
    /\ UNCHANGED <<config, catalog, mainRest>>

NextMain ==
    \/ MainLoadConfig
    \/ MainPrintRepository
    \/ MainFound
    \/ MainGenerateJson
    \/ MainGenerateHtml
    \/ NextScan

MainNames == { Archive(<<"a">>), Archive(<<"a", "-", "1">>) }

InitMain ==
    /\ pc = "main_start"
    /\ IdlePure
    /\ config_file \in ConfigFiles
    /\ static \in BOOLEAN
    /\ template \in IF static THEN { File(t) : t \in Templates } \cup {NoFile} ELSE {NoFile}
    /\ dir_exists \in BOOLEAN
    /\ listing \in IF dir_exists THEN DistinctSeqs(MainNames, MaxFiles) ELSE {<<>>}
    /\ fate \in [Range(listing) -> Fates]
    /\ InitScanState

SpecMain == InitMain /\ [][NextMain]_vars

----------------------------------------------------------------------------
(* Properties of a whole run. *)

\* C4: every run ends normally with the catalog written, whatever the
\* configuration file, the directory, the archives and the template; with no
\* matching archive the catalog has package_count 0 and no packages.
C4_RunAlwaysWritesCatalog ==
    pc \in {"done", "crashed"} =>
        /\ pc = "done"
        /\ catalog # NoDoc
        /\ { f \in Range(listing) : Matches(f) } = {} =>
               catalog.package_count = 0 /\ catalog.packages = <<>>

\* C5: the catalog written has package_count equal to the length of its
\* packages list, which is the list the scan returned.
C5_CountIsListLength ==
    catalog # NoDoc =>
        /\ catalog.package_count = Len(catalog.packages)
        /\ catalog.packages = packages

\* a catalog of two packages written under a configuration that declares three
C5_Witness ==
    /\ catalog # NoDoc
    /\ catalog.package_count = 2
    /\ config_file = "named"
    /\ Len(config.packages) = 3

\* what the document written holds in the place of segment x of the template
C9_Written(x, now) ==
    IF x = Placeholder /\ packages # <<>>
    THEN [i \in 1..(2 * Len(packages) - 1) |->
              IF i % 2 = 1
              THEN [ seg |-> "row",
                     name |-> packages[(i + 1) \div 2].name,
                     version |-> packages[(i + 1) \div 2].version,
                     description |-> packages[(i + 1) \div 2].description,
                     build_date |-> packages[(i + 1) \div 2].build_date ]
              ELSE Text("\n")]
    ELSE IF x = CountMarker THEN <<[seg |-> "count", n |-> Len(packages)]>>
    ELSE IF x = UpdatedMarker THEN <<[seg |-> "updated", now |-> now]>>
    ELSE <<x>>

RECURSIVE C9_Expected(_, _)
C9_Expected(tpl, now) ==
    IF tpl = <<>> THEN <<>>
    ELSE C9_Written(Head(tpl), now) \o C9_Expected(Tail(tpl), now)

\* C9: with a template, the document written is the template with the one
\* designated placeholder block (wherever the template holds it) replaced by
\* one row per package, in list order, joined by newlines, when there are
\* packages, and with the placeholder block as it was when there are none (the
\* two counters are filled in either way); without a template nothing is
\* written; the renderer never ends the run by an exception.
C9_PlaceholderReplacedByRows ==
    /\ pc = "crashed" => catalog = NoDoc
    /\ html.exists => pc = "done" /\ static /\ template.exists
    /\ (pc = "done" /\ static) =>
           IF ~template.exists
           THEN ~html.exists
           ELSE \E now \in Clock : html = File(C9_Expected(template.text, now))

\* two rows written in the place of the placeholder
C9_Witness ==
    /\ pc = "done"
    /\ Len(packages) = 2
    /\ template.text = <<Text("head"), Placeholder, Text("stats"), CountMarker,
                         UpdatedMarker, Text("foot")>>
    /\ Len(html.text) = 8
    /\ html.text[2].seg = "row" /\ html.text[2].name = packages[1].name
    /\ html.text[4].seg = "row" /\ html.text[4].name = packages[2].name

\* the placeholder left in the document written for an empty package list
C9_WitnessEmpty ==
    /\ pc = "done"
    /\ packages = <<>>
    /\ html.exists
    /\ \E i \in 1..Len(html.text) : html.text[i] = Placeholder

====
